---- MODULE Spec2Model ----
(***************************************************************************)
(* Model of `gotk create alert` (cmd/gotk/create_alert.go): flag           *)
(* validation, export short-circuit, upsertAlert (Get, then Create or      *)
(* Update) and the readiness poll wait.PollImmediate over isAlertReady,    *)
(* run against a cluster store that a remote controller and other writers  *)
(* change concurrently.  A second, smaller machine models `gotk get        *)
(* receivers` (getReceiverCmdRun): the List call and the table it prints.  *)
(*                                                                         *)
(* Time is counted in poll intervals: `now` is the number of whole poll    *)
(* intervals elapsed since the command created its context (line 118).     *)
(* Strings that the code parses or formats (event sources, condition       *)
(* messages) are sequences of one-character strings.                       *)
(***************************************************************************)
EXTENDS Integers, Sequences, FiniteSets, TLC

\* ------------------------------------------------------------------ bounds
\* the --timeout flag, in poll intervals
Timeout == 3
\* writes by the controller and by other clients in one behaviour
MaxEnvSteps == 2
\* the same, in the behaviours of the specification with fairness
MaxLiveEnvSteps == 1

\* ------------------------------------------------------------ flag inputs
Namespace == "default"
ArgInputs == {<<>>, <<"a">>}
ProviderRefInputs == {"", "slack", "teams"}
EventSourceInputs ==
    { <<>>,
      << <<"K", "/", "n">> >>,
      << <<"K", "n">> >>,
      << <<"/", "n">> >>,
      << <<"K", "/", "n">>, <<"K", "/", "n", "/", "x">> >> }
\* --label values: a key=value list, or a malformed one
LabelInputs == { <<>>, << <<"k", "=", "v">> >>, << <<"k", "v">> >> }
Severity == "info"

\* a command line that passes validation and reaches the cluster
BaseFlags ==
    [ args |-> <<"a">>, aProviderRef |-> "slack",
      aEventSources |-> << <<"K", "/", "n">> >>, labels |-> <<>>,
      export |-> FALSE, kubeconfigOK |-> TRUE ]

\* the command lines tried: BaseFlags with one flag changed, and --export
\* with each event-source list
FlagInputs ==
    { [BaseFlags EXCEPT !.args = a] : a \in ArgInputs }
    \cup { [BaseFlags EXCEPT !.aProviderRef = p] : p \in ProviderRefInputs }
    \cup { [BaseFlags EXCEPT !.aEventSources = e] : e \in EventSourceInputs }
    \cup { [BaseFlags EXCEPT !.labels = l] : l \in LabelInputs }
    \cup { [BaseFlags EXCEPT !.kubeconfigOK = FALSE] }
    \cup { [BaseFlags EXCEPT !.export = TRUE, !.aEventSources = e] : e \in EventSourceInputs }

\* ------------------------------------------------------ status conditions
Cond(t, s, m) == [type |-> t, status |-> s, message |-> m]
ReadyCondition == "Ready"
ConditionTrue == "True"
ConditionFalse == "False"
ConditionUnknown == "Unknown"

\* the condition lists the controller may publish
CondLists ==
    { <<>>,
      << Cond("Ready", "True", <<"o", "k">>) >>,
      << Cond("Ready", "Unknown", <<>>) >>,
      << Cond("Ready", "False", <<>>) >>,
      << Cond("Ready", "False", <<"e", "%", "d">>) >>,
      << Cond("Other", "True", <<>>) >>,
      << Cond("Other", "False", <<"e">>), Cond("Ready", "True", <<>>) >>,
      << Cond("Ready", "False", <<"%", "%">>), Cond("Ready", "True", <<>>) >>,
      << Cond("Ready", "Unknown", <<>>), Cond("Ready", "True", <<>>) >>,
      << Cond("Ready", "True", <<>>), Cond("Ready", "False", <<"l">>) >> }

\* --------------------------------------------------------------- helpers
RECURSIVE IndexOf(_, _, _)
\* first index i >= from with s[i] = c, or 0
IndexOf(s, c, from) ==
    IF from > Len(s) THEN 0
    ELSE IF s[from] = c THEN from
    ELSE IndexOf(s, c, from + 1)

RECURSIVE Split(_, _)
\* strings.Split(s, sep) for a one-character separator
Split(s, sep) ==
    LET i == IndexOf(s, sep, 1)
    IN  IF i = 0 THEN << s >>
        ELSE << SubSeq(s, 1, i - 1) >> \o Split(SubSeq(s, i + 1, Len(s)), sep)

\* utils.parseObjectKindName: kind is empty unless the input has exactly
\* one "/" separator
parseObjectKindName(input) ==
    LET parts == Split(input, "/")
    IN  IF Len(parts) = 2
        THEN [kind |-> parts[1], name |-> parts[2]]
        ELSE [kind |-> <<>>, name |-> input]

RECURSIVE parseLabelList(_)
\* parseLabels: every --label must split into key=value
parseLabelList(ls) ==
    IF ls = <<>> THEN [err |-> FALSE, labels |-> {}]
    ELSE LET parts == Split(Head(ls), "=")
             rest == parseLabelList(Tail(ls))
         IN  IF Len(parts) # 2 \/ rest.err
             THEN [err |-> TRUE, labels |-> {}]
             ELSE [err |-> FALSE,
                   labels |-> rest.labels \cup { <<parts[1], parts[2]>> }]

RECURSIVE Sprintf(_)
\* fmt.Errorf(format) with no operands: a verb has no operand to print,
\* "%%" prints one "%", a trailing "%" has no verb
Sprintf(format) ==
    IF format = <<>> THEN <<>>
    ELSE IF Head(format) # "%" THEN << Head(format) >> \o Sprintf(Tail(format))
    ELSE IF Len(format) = 1 THEN << "%!(NOVERB)" >>
    ELSE IF format[2] = "%" THEN << "%" >> \o Sprintf(SubSeq(format, 3, Len(format)))
    ELSE << "%!", format[2], "(MISSING)" >> \o Sprintf(SubSeq(format, 3, Len(format)))

\* errors: a class and a text
Err(class, text) == [class |-> class, text |-> text]
Nil == Err("nil", <<>>)
\* no error yet: the command has not returned
Running == Err("running", <<>>)

\* the zero value of notificationv1.Alert
NoAlert ==
    [ name |-> "", namespace |-> "", labels |-> {},
      spec |-> [ providerRef |-> "", eventSeverity |-> "", eventSources |-> <<>>,
                 suspend |-> FALSE ],
      resourceVersion |-> 0, conditions |-> <<>> ]

RECURSIVE GetCondition_Last(_, _)
\* GetCondition that returns the last condition of the given type
GetCondition_Last(conditions, t) ==
    IF conditions = <<>> THEN <<>>
    ELSE IF GetCondition_Last(Tail(conditions), t) # <<>>
    THEN GetCondition_Last(Tail(conditions), t)
    ELSE IF Head(conditions).type = t THEN << Head(conditions) >>
    ELSE <<>>

RECURSIVE GetCondition(_, _)
\* meta.GetCondition: the first condition of the given type, as a
\* one-element sequence, or the empty sequence (nil)
GetCondition(conditions, t) ==
    IF conditions = <<>> THEN <<>>
    ELSE IF Head(conditions).type = t THEN << Head(conditions) >>
    ELSE GetCondition(Tail(conditions), t)

\* ------------------------------------------------------------------ state
VARIABLES
    flags,        \* the command line of the current invocation
    pc,           \* position of the current invocation
    alert,        \* the desired object built at lines 98-112
    existing,     \* the object upsertAlert fetched
    store,        \* the cluster: the set of stored Alert objects
    nextRV,       \* the cluster's next resource version
    now,          \* poll intervals elapsed since the context was created
    pollStart,    \* `now` when wait.PollImmediate was entered
    polls,        \* the polls of this invocation, in order
    calls,        \* the client calls of this invocation, in order
    log,          \* logger and stdout lines of this invocation
    result,       \* the error createAlertCmdRun returned (Running before)
    run,          \* number of the current invocation
    prev,         \* the finished invocations, in order
    envBudget,    \* writes the controller and other clients may still make
    storeAtStart, \* the store when this invocation started
    envAtStart,   \* envBudget when this invocation started
    otherWrites,  \* writes other clients made during this invocation
    envAtWrite,   \* envBudget when the write of the upsert succeeded
    getFlags,     \* the command line of `get receivers`
    getPc,        \* position of the `get receivers` invocation
    receivers,    \* the cluster: the stored Receivers, in the server's order
    getCalls,     \* the client calls of `get receivers`, in order
    list,         \* list.Items as the List call filled it
    table,        \* the header and rows handed to utils.printTable
    getLog,       \* logger lines of `get receivers`
    getResult     \* the error getReceiverCmdRun returned (Running before)

alertVars == << flags, pc, alert, existing, store, nextRV, now, pollStart, polls,
                calls, log, result, run, prev, envBudget, storeAtStart, envAtStart,
                otherWrites, envAtWrite >>

getVars == << getFlags, getPc, receivers, getCalls, list, table, getLog, getResult >>

vars == << alertVars, getVars >>

\* ------------------------------------------------------ command, locally
RECURSIVE parseEventSources(_)
\* lines 72-83: the first event source whose kind is empty is an error
parseEventSources(srcs) ==
    IF srcs = <<>> THEN [err |-> Nil, refs |-> <<>>]
    ELSE LET kn == parseObjectKindName(Head(srcs))
             rest == parseEventSources(Tail(srcs))
         IN  IF kn.kind = <<>>
             THEN [err |-> Err("validation", << "invalid event source" >> \o Head(srcs)),
                   refs |-> <<>>]
             ELSE IF rest.err # Nil THEN rest
             ELSE [err |-> Nil, refs |-> << kn >> \o rest.refs]

\* Validate without the check of line 85 for an empty list of event sources
Validate_NoSourceCount(f) ==
    IF Len(f.args) < 1 THEN Err("validation", << "alert name is required" >>)
    ELSE IF f.aProviderRef = "" THEN Err("validation", << "provider ref is required" >>)
    ELSE LET es == parseEventSources(f.aEventSources)
         IN  IF es.err # Nil THEN es.err
             ELSE IF parseLabelList(f.labels).err
             THEN Err("validation", << "invalid label format" >>)
             ELSE Nil

\* lines 63-92: the checks createAlertCmdRun makes before it builds the object
Validate(f) ==
    IF Len(f.args) < 1 THEN Err("validation", << "alert name is required" >>)
    ELSE IF f.aProviderRef = "" THEN Err("validation", << "provider ref is required" >>)
    ELSE LET es == parseEventSources(f.aEventSources)
         IN  IF es.err # Nil THEN es.err
             ELSE IF Len(es.refs) = 0
             THEN Err("validation", << "at least one event source is required" >>)
             ELSE IF parseLabelList(f.labels).err
             THEN Err("validation", << "invalid label format" >>)
             ELSE Nil

\* lines 98-112: the desired Alert
BuildAlert(f) ==
    [ name |-> f.args[1],
      namespace |-> Namespace,
      labels |-> parseLabelList(f.labels).labels,
      spec |-> [ providerRef |-> f.aProviderRef,
                 eventSeverity |-> Severity,
                 eventSources |-> parseEventSources(f.aEventSources).refs,
                 suspend |-> FALSE ],
      resourceVersion |-> 0,
      conditions |-> <<>> ]

\* exportAlert: the object as a manifest, without the server-managed fields
exportAlert(a) ==
    << "---",
       [ apiVersion |-> "notification.toolkit.fluxcd.io/v1beta1",
         kind |-> "Alert",
         metadata |-> [name |-> a.name, namespace |-> a.namespace, labels |-> a.labels],
         spec |-> a.spec ] >>

\* CtxDone of a deadline that starts with the poll instead of at line 118
CtxDone_FromPoll == now >= pollStart + Timeout

\* ------------------------------------------------------------ the client
\* the context of line 118 has a deadline of `timeout` from its creation
CtxDone == now >= Timeout

Key(o) == << o.namespace, o.name >>
Lookup(st, namespace, name) == { o \in st : Key(o) = << namespace, name >> }

\* kubeClient.Get: the stored object of that namespace and name
ClientGet(st, namespace, name, fault) ==
    IF CtxDone THEN [err |-> Err("deadline", <<>>), obj |-> NoAlert]
    ELSE IF fault THEN [err |-> Err("api", <<>>), obj |-> NoAlert]
    ELSE IF Lookup(st, namespace, name) = {} THEN [err |-> Err("notfound", <<>>), obj |-> NoAlert]
    ELSE [err |-> Nil, obj |-> CHOOSE o \in Lookup(st, namespace, name) : TRUE]

\* kubeClient.Create: stores the object under a fresh resource version
ClientCreate(st, obj, fault) ==
    IF CtxDone THEN [err |-> Err("deadline", <<>>), st |-> st]
    ELSE IF fault THEN [err |-> Err("api", <<>>), st |-> st]
    ELSE IF Lookup(st, obj.namespace, obj.name) # {}
    THEN [err |-> Err("alreadyexists", <<>>), st |-> st]
    ELSE [err |-> Nil,
          st |-> st \cup { [obj EXCEPT !.resourceVersion = nextRV, !.conditions = <<>>] }]

\* kubeClient.Update: optimistic concurrency on the resource version; the
\* status is a subresource and is left as stored
ClientUpdate(st, obj, fault) ==
    LET cur == Lookup(st, obj.namespace, obj.name)
    IN  IF CtxDone THEN [err |-> Err("deadline", <<>>), st |-> st]
        ELSE IF fault THEN [err |-> Err("api", <<>>), st |-> st]
        ELSE IF cur = {} THEN [err |-> Err("notfound", <<>>), st |-> st]
        ELSE LET c == CHOOSE o \in cur : TRUE
             IN  IF c.resourceVersion # obj.resourceVersion
                 THEN [err |-> Err("conflict", <<>>), st |-> st]
                 ELSE IF c.labels = obj.labels /\ c.spec = obj.spec
                 THEN [err |-> Nil, st |-> st]
                 ELSE [err |-> Nil,
                       st |-> (st \ {c}) \cup
                              { [c EXCEPT !.labels = obj.labels, !.spec = obj.spec,
                                          !.resourceVersion = nextRV] }]

\* one client call: what was called, with what, the error it gave, and
\* whether `timeout` had passed since line 118 when it was issued
Call(op, phase, arg, err) ==
    [op |-> op, phase |-> phase, arg |-> arg, err |-> err, late |-> now >= Timeout]

\* isAlertReady that takes every Ready status but False for readiness
isAlertReady_UnknownReady(got) ==
    IF got.err # Nil THEN [done |-> FALSE, err |-> got.err]
    ELSE LET c == GetCondition(got.obj.conditions, ReadyCondition)
         IN  IF c # <<>> /\ c[1].status # ConditionFalse
             THEN [done |-> TRUE, err |-> Nil]
             ELSE IF c # <<>>
             THEN [done |-> FALSE, err |-> Err("terminal", Sprintf(c[1].message))]
             ELSE [done |-> FALSE, err |-> Nil]

\* isAlertReady that keeps polling on Ready=False
isAlertReady_RetryFalse(got) ==
    IF got.err # Nil THEN [done |-> FALSE, err |-> got.err]
    ELSE LET c == GetCondition(got.obj.conditions, ReadyCondition)
         IN  IF c # <<>> /\ c[1].status = ConditionTrue
             THEN [done |-> TRUE, err |-> Nil]
             ELSE [done |-> FALSE, err |-> Nil]

\* isAlertReady that takes an object without a Ready condition for ready
isAlertReady_AbsentReady(got) ==
    IF got.err # Nil THEN [done |-> FALSE, err |-> got.err]
    ELSE LET c == GetCondition(got.obj.conditions, ReadyCondition)
         IN  IF c = <<>> \/ c[1].status = ConditionTrue
             THEN [done |-> TRUE, err |-> Nil]
             ELSE IF c[1].status = ConditionFalse
             THEN [done |-> FALSE, err |-> Err("terminal", Sprintf(c[1].message))]
             ELSE [done |-> FALSE, err |-> Nil]

\* isAlertReady that keeps polling when the Get finds nothing
isAlertReady_SwallowNotFound(got) ==
    IF got.err # Nil /\ got.err.class # "notfound" THEN [done |-> FALSE, err |-> got.err]
    ELSE LET c == GetCondition(got.obj.conditions, ReadyCondition)
         IN  IF c # <<>> /\ c[1].status = ConditionTrue
             THEN [done |-> TRUE, err |-> Nil]
             ELSE IF c # <<>> /\ c[1].status = ConditionFalse
             THEN [done |-> FALSE, err |-> Err("terminal", Sprintf(c[1].message))]
             ELSE [done |-> FALSE, err |-> Nil]

\* isAlertReady, lines 173-194, applied to the outcome of its Get
isAlertReady(got) ==
    IF got.err # Nil THEN [done |-> FALSE, err |-> got.err]
    ELSE LET c == GetCondition(got.obj.conditions, ReadyCondition)
         IN  IF c # <<>> /\ c[1].status = ConditionTrue
             THEN [done |-> TRUE, err |-> Nil]
             ELSE IF c # <<>> /\ c[1].status = ConditionFalse
             THEN [done |-> FALSE, err |-> Err("terminal", Sprintf(c[1].message))]
             ELSE [done |-> FALSE, err |-> Nil]

\* what a poll saw: the status of the condition isAlertReady read
Observed(got) ==
    IF got.err # Nil THEN "nothing"
    ELSE LET c == GetCondition(got.obj.conditions, ReadyCondition)
         IN  IF c = <<>> THEN "absent" ELSE c[1].status

\* ------------------------------------------------------------------- Init
NoTable == [header |-> <<>>, rows |-> <<>>, printed |-> FALSE]

\* `get receivers` is not running
GetIdle ==
    /\ getFlags = [allNamespaces |-> FALSE, kubeconfigOK |-> TRUE]
    /\ getPc = "idle"
    /\ receivers = <<>>
    /\ getCalls = <<>>
    /\ list = <<>>
    /\ table = NoTable
    /\ getLog = <<>>
    /\ getResult = Running

Existing(name, labels, provider, conds) ==
    [ name |-> name, namespace |-> Namespace, labels |-> labels,
      spec |-> [ providerRef |-> provider, eventSeverity |-> "error",
                 eventSources |-> << [kind |-> <<"G">>, name |-> <<"r">>] >>,
                 suspend |-> TRUE ],
      resourceVersion |-> 1, conditions |-> conds ]

\* an Alert of another name that is in the cluster throughout
Bystander == Existing("b", {}, "teams", << Cond("Ready", "True", <<>>) >>)

\* the cluster at the start: the Alert "a" is absent, or present without a
\* status, or present with the Ready=True its current spec earned
InitStores ==
    { { Bystander } } \cup
    { { Bystander, Existing("a", { << <<"o">>, <<"1">> >> }, "slack", c) } :
        c \in { <<>>, << Cond("Ready", "True", <<"o", "k">>) >> } }

InitWith(budget) ==
    /\ flags \in FlagInputs
    /\ pc = "start"
    /\ alert = NoAlert
    /\ existing = NoAlert
    /\ store \in InitStores
    /\ nextRV = 2
    /\ now = 0
    /\ pollStart = 0
    /\ polls = <<>>
    /\ calls = <<>>
    /\ log = <<>>
    /\ result = Running
    /\ run = 1
    /\ prev = <<>>
    /\ envBudget = budget
    /\ storeAtStart = store
    /\ envAtStart = budget
    /\ otherWrites = 0
    /\ envAtWrite = budget
    /\ GetIdle

Init == InitWith(MaxEnvSteps)

\* ---------------------------------------------------------------- actions
Return(err) ==
    /\ result' = err
    /\ pc' = "done"

\* StartBranch that does not look at --export
StartBranch_IgnoreExport(f) ==
    IF Validate(f) # Nil THEN "invalid"
    ELSE IF ~f.kubeconfigOK THEN "noclient"
    ELSE "upsert"

\* createAlertCmdRun, lines 63-124: where the command goes once the flags
\* are read: a validation error, the export, a client error, or the upsert
StartBranch(f) ==
    IF Validate(f) # Nil THEN "invalid"
    ELSE IF f.export THEN "export"
    ELSE IF ~f.kubeconfigOK THEN "noclient"
    ELSE "upsert"

\* createAlertCmdRun, lines 62-126: validation, the desired object, export,
\* the context and the client
CmdStart ==
    /\ UNCHANGED getVars
    /\ pc = "start"
    /\ UNCHANGED << flags, existing, store, nextRV, now, pollStart, polls, calls,
                    run, prev, envBudget, storeAtStart, envAtStart, otherWrites, envAtWrite >>
    /\ LET branch == StartBranch(flags)
       IN  IF branch = "invalid"
           THEN /\ Return(Validate(flags))
                /\ UNCHANGED << alert, log >>
           ELSE /\ alert' = BuildAlert(flags)
                /\ IF branch = "export"
                   THEN /\ log' = exportAlert(BuildAlert(flags))
                        /\ Return(Nil)
                   ELSE IF branch = "noclient"
                   THEN /\ log' = << "generating alert" >>
                        /\ Return(Err("kubeclient", <<>>))
                   ELSE /\ log' = << "generating alert", "applying alert" >>
                        /\ pc' = "upsert_get"
                        /\ result' = Running

\* AfterGet without the errors.IsNotFound test: every failed Get leads to Create
AfterGet_AnyErrCreates(err) ==
    IF err = Nil THEN "upsert_update" ELSE "upsert_create"

\* AfterGet without the Create branch: a not-found Get is returned as an error
AfterGet_NoCreate(err) ==
    IF err = Nil THEN "upsert_update" ELSE "return"

\* upsertAlert, lines 150-160: the branch on the error of the Get
AfterGet(err) ==
    IF err = Nil THEN "upsert_update"
    ELSE IF err.class = "notfound" THEN "upsert_create"
    ELSE "return"

\* upsertAlert, lines 143-160: the Get and the branch on its error
UpsertGet ==
    /\ UNCHANGED getVars
    /\ pc = "upsert_get"
    /\ \E fault \in BOOLEAN :
         LET got == ClientGet(store, alert.namespace, alert.name, fault)
         IN  /\ calls' = Append(calls, Call("Get", "upsert", Key(alert), got.err))
             /\ existing' = got.obj
             /\ IF AfterGet(got.err) = "return"
                THEN Return(got.err)
                ELSE pc' = AfterGet(got.err) /\ result' = Running
    /\ UNCHANGED << flags, alert, store, nextRV, now, pollStart, polls, log,
                    run, prev, envBudget, storeAtStart, envAtStart, otherWrites, envAtWrite >>

\* UpsertCreate that starts the upsert over when the Alert exists by now
UpsertCreate_Retry ==
    /\ UNCHANGED getVars
    /\ pc = "upsert_create"
    /\ \E fault \in BOOLEAN :
         LET r == ClientCreate(store, alert, fault)
         IN  /\ calls' = Append(calls, Call("Create", "upsert", alert, r.err))
             /\ store' = r.st
             /\ nextRV' = IF r.st # store THEN nextRV + 1 ELSE nextRV
             /\ IF r.err # Nil /\ r.err.class = "alreadyexists"
                THEN /\ pc' = "upsert_get"
                     /\ result' = Running
                     /\ UNCHANGED << log, pollStart, envAtWrite >>
                ELSE IF r.err # Nil
                THEN Return(r.err) /\ UNCHANGED << log, pollStart, envAtWrite >>
                ELSE /\ log' = log \o << "alert created", "waiting for reconciliation" >>
                     /\ pollStart' = now
                     /\ envAtWrite' = envBudget
                     /\ pc' = "poll"
                     /\ result' = Running
    /\ UNCHANGED << flags, alert, existing, now, polls, run, prev, envBudget,
                    storeAtStart, envAtStart, otherWrites >>

\* upsertAlert, lines 152-157, and createAlertCmdRun, lines 127-131
UpsertCreate ==
    /\ UNCHANGED getVars
    /\ pc = "upsert_create"
    /\ \E fault \in BOOLEAN :
         LET r == ClientCreate(store, alert, fault)
         IN  /\ calls' = Append(calls, Call("Create", "upsert", alert, r.err))
             /\ store' = r.st
             /\ nextRV' = IF r.st # store THEN nextRV + 1 ELSE nextRV
             /\ IF r.err # Nil
                THEN Return(r.err) /\ UNCHANGED << log, pollStart, envAtWrite >>
                ELSE /\ log' = log \o << "alert created", "waiting for reconciliation" >>
                     /\ pollStart' = now
                     /\ envAtWrite' = envBudget
                     /\ pc' = "poll"
                     /\ result' = Running
    /\ UNCHANGED << flags, alert, existing, now, polls, run, prev, envBudget,
                    storeAtStart, envAtStart, otherWrites >>

\* Merge that sends the desired object with the fetched resource version,
\* dropping what else was fetched
Merge_DropStatus(e, a) == [a EXCEPT !.resourceVersion = e.resourceVersion]

\* Merge that sends the desired object as built, without the fetched one
Merge_Whole(e, a) == a

\* lines 162-163: the desired labels and spec laid over the fetched object
Merge(e, a) == [e EXCEPT !.labels = a.labels, !.spec = a.spec]

\* upsertAlert, lines 162-169, and createAlertCmdRun, lines 127-131
UpsertUpdate ==
    /\ UNCHANGED getVars
    /\ pc = "upsert_update"
    /\ \E fault \in BOOLEAN :
         LET r == ClientUpdate(store, Merge(existing, alert), fault)
         IN  /\ calls' = Append(calls, Call("Update", "upsert", Merge(existing, alert), r.err))
             /\ store' = r.st
             /\ nextRV' = IF r.st # store THEN nextRV + 1 ELSE nextRV
             /\ IF r.err # Nil
                THEN Return(r.err) /\ UNCHANGED << log, pollStart, envAtWrite >>
                ELSE /\ log' = log \o << "alert updated", "waiting for reconciliation" >>
                     /\ pollStart' = now
                     /\ envAtWrite' = envBudget
                     /\ pc' = "poll"
                     /\ result' = Running
    /\ UNCHANGED << flags, alert, existing, now, polls, run, prev, envBudget,
                    storeAtStart, envAtStart, otherWrites >>

\* PollStep of a wait without timeout whose condition swallows its errors
PollStep_Endless(r, closed) ==
    IF r.err = Nil /\ r.done THEN [stop |-> TRUE, err |-> Nil]
    ELSE [stop |-> FALSE, err |-> Nil]

\* wait.PollImmediate and wait.WaitFor around one call of the condition:
\* an error ends the wait, then success does, then the closed timer channel
PollStep(r, closed) ==
    IF r.err # Nil THEN [stop |-> TRUE, err |-> r.err]
    ELSE IF r.done THEN [stop |-> TRUE, err |-> Nil]
    ELSE IF closed THEN [stop |-> TRUE, err |-> Err("waittimeout", <<>>)]
    ELSE [stop |-> FALSE, err |-> Nil]

\* the poller's timer of `timeout`, started when PollImmediate is entered,
\* has closed the channel; the immediate first call does not read it
TimerClosed == polls # <<>> /\ now >= pollStart + Timeout

\* PollImmediate calls the condition at once; WaitFor calls it again when
\* the poller's ticker has ticked since the last call
PollDue == IF polls = <<>> THEN TRUE ELSE now > polls[Len(polls)].at

\* Poll that deletes the Alert again when the wait ends with an error
Poll_Rollback ==
    /\ UNCHANGED getVars
    /\ pc = "poll"
    /\ PollDue
    /\ \E fault \in BOOLEAN :
         LET got == ClientGet(store, Namespace, flags.args[1], fault)
             step == PollStep(isAlertReady(got), TimerClosed)
             get == Call("Get", "poll", << Namespace, flags.args[1] >>, got.err)
         IN  /\ polls' = Append(polls, [at |-> now, seen |-> Observed(got),
                                        err |-> got.err, conditions |-> got.obj.conditions,
                                        closed |-> TimerClosed])
             /\ IF ~step.stop
                THEN /\ calls' = Append(calls, get)
                     /\ UNCHANGED << pc, result, log, store >>
                ELSE /\ Return(step.err)
                     /\ log' = IF step.err = Nil THEN Append(log, "alert is ready") ELSE log
                     /\ IF step.err = Nil
                        THEN calls' = Append(calls, get) /\ UNCHANGED store
                        ELSE /\ calls' = calls \o << get, Call("Delete", "poll", << Namespace, flags.args[1] >>, Nil) >>
                             /\ store' = store \ Lookup(store, Namespace, flags.args[1])
    /\ UNCHANGED << flags, alert, existing, nextRV, now, pollStart,
                    run, prev, envBudget, storeAtStart, envAtStart, otherWrites, envAtWrite >>

\* createAlertCmdRun, lines 131-139: one call of isAlertReady by
\* wait.PollImmediate, at once the first time and on a tick afterwards
Poll ==
    /\ UNCHANGED getVars
    /\ pc = "poll"
    /\ PollDue
    /\ \E fault \in BOOLEAN :
         LET got == ClientGet(store, Namespace, flags.args[1], fault)
             step == PollStep(isAlertReady(got), TimerClosed)
         IN  /\ calls' = Append(calls, Call("Get", "poll", << Namespace, flags.args[1] >>, got.err))
             /\ polls' = Append(polls, [at |-> now, seen |-> Observed(got),
                                        err |-> got.err, conditions |-> got.obj.conditions,
                                        closed |-> TimerClosed])
             /\ IF ~step.stop
                THEN UNCHANGED << pc, result, log >>
                ELSE /\ Return(step.err)
                     /\ log' = IF step.err = Nil THEN Append(log, "alert is ready") ELSE log
    /\ UNCHANGED << flags, alert, existing, store, nextRV, now, pollStart,
                    run, prev, envBudget, storeAtStart, envAtStart, otherWrites, envAtWrite >>

\* time passes while a client call is in flight or the poll loop sleeps;
\* it is counted up to the context's deadline, after which every call fails
Tick ==
    /\ UNCHANGED getVars
    /\ pc \in {"upsert_get", "upsert_create", "upsert_update", "poll"}
    /\ ~CtxDone
    /\ now' = now + 1
    /\ UNCHANGED << flags, pc, alert, existing, store, nextRV, pollStart, polls,
                    calls, log, result, run, prev, envBudget, storeAtStart, envAtStart, otherWrites, envAtWrite >>

\* the notification controller publishes a status for the stored Alert "a"
\* (writes to the bystander are left out: no call of the command reads them)
ControllerReconcile ==
    /\ UNCHANGED getVars
    /\ pc # "start"
    /\ envBudget > 0
    /\ \E o \in Lookup(store, Namespace, "a"), c \in CondLists :
         /\ c # o.conditions
         /\ store' = (store \ {o}) \cup
                     { [o EXCEPT !.conditions = c, !.resourceVersion = nextRV] }
    /\ nextRV' = nextRV + 1
    /\ envBudget' = envBudget - 1
    /\ UNCHANGED << flags, pc, alert, existing, now, pollStart, polls, calls,
                    log, result, run, prev, storeAtStart, envAtStart, otherWrites, envAtWrite >>

\* another client deletes the stored Alert "a"
OtherDelete ==
    /\ UNCHANGED getVars
    /\ pc # "start"
    /\ envBudget > 0
    /\ \E o \in Lookup(store, Namespace, "a") : store' = store \ {o}
    /\ envBudget' = envBudget - 1
    /\ UNCHANGED << flags, pc, alert, existing, nextRV, now, pollStart, polls,
                    calls, log, result, run, prev, storeAtStart, envAtStart >>
    /\ otherWrites' = otherWrites + 1
    /\ UNCHANGED envAtWrite

\* another client creates the Alert
OtherCreate ==
    /\ UNCHANGED getVars
    /\ pc # "start"
    /\ envBudget > 0
    /\ Lookup(store, Namespace, "a") = {}
    /\ store' = store \cup
                { [Existing("a", { << <<"o">>, <<"1">> >> }, "teams", <<>>) EXCEPT !.resourceVersion = nextRV] }
    /\ nextRV' = nextRV + 1
    /\ envBudget' = envBudget - 1
    /\ UNCHANGED << flags, pc, alert, existing, now, pollStart, polls, calls,
                    log, result, run, prev, storeAtStart, envAtStart >>
    /\ otherWrites' = otherWrites + 1
    /\ UNCHANGED envAtWrite

\* the user runs the same command line a second time
Rerun ==
    /\ UNCHANGED getVars
    /\ pc = "done"
    /\ run = 1
    /\ prev' = Append(prev, [alert |-> alert, calls |-> calls, polls |-> polls,
                             result |-> result, log |-> log,
                             envAtStart |-> envAtStart,
                             storeAtStart |-> storeAtStart])
    /\ run' = 2
    /\ pc' = "start"
    /\ alert' = NoAlert
    /\ existing' = NoAlert
    /\ now' = 0
    /\ pollStart' = 0
    /\ polls' = <<>>
    /\ calls' = <<>>
    /\ log' = <<>>
    /\ result' = Running
    /\ storeAtStart' = store
    /\ envAtStart' = envBudget
    /\ otherWrites' = 0
    /\ envAtWrite' = envBudget
    /\ UNCHANGED << flags, store, nextRV, envBudget >>

Next ==
    \/ CmdStart
    \/ UpsertGet
    \/ UpsertCreate
    \/ UpsertUpdate
    \/ Poll
    \/ Tick
    \/ ControllerReconcile
    \/ OtherDelete
    \/ OtherCreate

\* one invocation of the command
Spec == Init /\ [][Next]_vars

\* one invocation of a command that runs: the process is scheduled, so a
\* poll that is due is made, and time passes until the deadline
SpecLive == InitWith(MaxLiveEnvSteps) /\ [][Next]_vars /\ WF_vars(Poll) /\ WF_vars(Tick)

\* the command run twice in succession, with at most one foreign write
NextTwice == Next \/ Rerun

SpecTwice == InitWith(1) /\ [][NextTwice]_vars

\* ------------------------------------------------- `gotk get receivers`
\* Receivers listed at most (the bound of the cluster's content)
MaxReceivers == 2

\* condition lists a Receiver can carry (messages are printed as they are)
ReceiverConds ==
    { <<>>,
      << Cond("Ready", "True", "initialized") >>,
      << Cond("Ready", "False", "token missing") >>,
      << Cond("Other", "True", "x"), Cond("Ready", "Unknown", "") >> }

ReceiverInputs ==
    [ name : {"r1", "r2"}, namespace : {Namespace, "other"},
      suspend : BOOLEAN, conditions : ReceiverConds ]

\* the Receivers of a cluster: no two share namespace and name
ReceiverLists ==
    { rs \in UNION { [1..n -> ReceiverInputs] : n \in 0..MaxReceivers } :
        \A i, j \in DOMAIN rs : i # j => Key(rs[i]) # Key(rs[j]) }

\* strconv.FormatBool
FormatBool(b) == IF b THEN <<"t", "r", "u", "e">> ELSE <<"f", "a", "l", "s", "e">>

\* unicode.ToTitle on the letters FormatBool produces
ToTitle(ch) ==
    CASE ch = "t" -> "T" [] ch = "f" -> "F" [] OTHER -> ch

\* strings.Title on a single word: its first letter in title case
Title(w) == IF w = <<>> THEN <<>> ELSE << ToTitle(Head(w)) >> \o Tail(w)

\* lines 56-59: the namespace option of the List call
InNamespace(items, all) ==
    LET Wanted(r) == all \/ r.namespace = Namespace
    IN  SelectSeq(items, Wanted)

\* lines 71-74: the header, with a namespace column for --all-namespaces
Header(all) ==
    IF all THEN << "Namespace", "Name", "Suspended", "Ready", "Message" >>
    ELSE << "Name", "Suspended", "Ready", "Message" >>

\* Row that prints no placeholder: a Receiver without Ready has empty cells
Row_NoPlaceholder(receiver) ==
    LET c == GetCondition(receiver.conditions, ReadyCondition)
    IN  IF c # <<>>
        THEN << receiver.name, Title(FormatBool(receiver.suspend)),
                c[1].status, c[1].message >>
        ELSE << receiver.name, Title(FormatBool(receiver.suspend)), "", "" >>

\* lines 77-92: the row of one Receiver
Row(receiver) ==
    LET c == GetCondition(receiver.conditions, ReadyCondition)
    IN  IF c # <<>>
        THEN << receiver.name, Title(FormatBool(receiver.suspend)),
                c[1].status, c[1].message >>
        ELSE << receiver.name, Title(FormatBool(receiver.suspend)),
                ConditionFalse, "waiting to be reconciled" >>

\* lines 75-94: the rows, one appended per item, in the order of the items
Rows(items) == [ i \in DOMAIN items |-> Row(items[i]) ]

InitGet ==
    /\ flags = BaseFlags
    /\ pc = "idle"
    /\ alert = NoAlert
    /\ existing = NoAlert
    /\ store = { Bystander }
    /\ nextRV = 2
    /\ now = 0
    /\ pollStart = 0
    /\ polls = <<>>
    /\ calls = <<>>
    /\ log = <<>>
    /\ result = Running
    /\ run = 1
    /\ prev = <<>>
    /\ envBudget = 0
    /\ storeAtStart = store
    /\ envAtStart = 0
    /\ otherWrites = 0
    /\ envAtWrite = 0
    /\ getFlags \in [allNamespaces : BOOLEAN, kubeconfigOK : BOOLEAN]
    /\ getPc = "start"
    /\ receivers \in ReceiverLists
    /\ getCalls = <<>>
    /\ list = <<>>
    /\ table = NoTable
    /\ getLog = <<>>
    /\ getResult = Running

GetReturn(err) ==
    /\ getResult' = err
    /\ getPc' = "done"

\* getReceiverCmdRun, lines 48-54: the context and the client
GetStart ==
    /\ getPc = "start"
    /\ IF getFlags.kubeconfigOK
       THEN getPc' = "list" /\ getResult' = Running
       ELSE GetReturn(Err("kubeclient", <<>>))
    /\ UNCHANGED << getFlags, receivers, getCalls, list, table, getLog >>
    /\ UNCHANGED alertVars

\* getReceiverCmdRun, lines 56-64: the List call
GetList ==
    /\ getPc = "list"
    /\ \E fault \in BOOLEAN :
         LET err == IF fault THEN Err("api", <<>>) ELSE Nil
         IN  /\ getCalls' = Append(getCalls, Call("List", "get", getFlags.allNamespaces, err))
             /\ IF err # Nil
                THEN GetReturn(err) /\ UNCHANGED list
                ELSE /\ list' = InNamespace(receivers, getFlags.allNamespaces)
                     /\ getPc' = "render"
                     /\ getResult' = Running
    /\ UNCHANGED << getFlags, receivers, table, getLog >>
    /\ UNCHANGED alertVars

\* RenderBranch without the test for an empty list
RenderBranch_PrintEmpty(items) == "table"

\* lines 66-69: nothing listed is reported and the command returns
RenderBranch(items) == IF Len(items) = 0 THEN "nothing" ELSE "table"

\* getReceiverCmdRun, lines 66-96: nothing listed is logged and is no
\* error; otherwise the header and the rows go to utils.printTable
GetRender ==
    /\ getPc = "render"
    /\ IF RenderBranch(list) = "nothing"
       THEN /\ getLog' = Append(getLog, << "no receivers found in %s namespace", Namespace >>)
            /\ UNCHANGED table
       ELSE /\ table' = [header |-> Header(getFlags.allNamespaces),
                         rows |-> Rows(list), printed |-> TRUE]
            /\ UNCHANGED getLog
    /\ GetReturn(Nil)
    /\ UNCHANGED << getFlags, receivers, getCalls, list >>
    /\ UNCHANGED alertVars

\* the notification controller publishes a status for a stored Receiver
\* while the command runs
ReceiverReconcile ==
    /\ getPc \in {"list", "render"}
    /\ \E i \in DOMAIN receivers, c \in ReceiverConds :
         /\ c # receivers[i].conditions
         /\ receivers' = [receivers EXCEPT ![i].conditions = c]
    /\ UNCHANGED << getFlags, getPc, getCalls, list, table, getLog, getResult >>
    /\ UNCHANGED alertVars

NextGet ==
    \/ GetStart
    \/ GetList
    \/ GetRender
    \/ ReceiverReconcile

\* one invocation of `get receivers`
SpecGet == InitGet /\ [][NextGet]_vars

\* ================================================================ claims
Ops(cs) == [i \in DOMAIN cs |-> cs[i].op]
IsUpsertCall(c) == c.phase = "upsert"
UpsertCalls == SelectSeq(calls, IsUpsertCall)
CountOp(cs, op) == Cardinality({ i \in DOMAIN cs : cs[i].op = op })
\* upsertAlert has returned in this invocation
UpsertDone == pc \in {"poll", "done"} /\ calls # <<>>
\* what upsertAlert returned: nil when the command went on to poll
UpsertReturned == IF pc = "poll" \/ polls # <<>> THEN Nil ELSE result
\* no other client and no controller has written since this invocation began
Undisturbed == envBudget = envAtStart
\* the desired resource R of this command line
Desired == BuildAlert(flags)
Stored(name) == Lookup(store, Namespace, name)

\* C1: when the Get of upsertAlert finds no object of R's namespace and
\* name, the invocation issues exactly one Create, whose argument is R as
\* built from the flags, and no Update.
C1_CreateWhenAbsent ==
    (UpsertDone /\ calls[1].err.class = "notfound") =>
        /\ Ops(UpsertCalls) = << "Get", "Create" >>
        /\ CountOp(calls, "Create") = 1
        /\ CountOp(calls, "Update") = 0
        /\ calls[2].arg = Desired
        /\ (Undisturbed => Lookup(storeAtStart, Namespace, flags.args[1]) = {})

C1_Witness ==
    /\ UpsertDone
    /\ calls[1].err.class = "notfound"
    /\ Len(calls) >= 2
    /\ calls[2].op = "Create"
    /\ calls[2].err = Nil
    /\ \E o \in Stored("a") : o.spec = Desired.spec /\ o.labels = Desired.labels

\* C2: when the Get of upsertAlert returns an object E, the invocation
\* issues exactly one Update and no Create; the object sent has R's labels and
\* spec and E's other fields (name, namespace, resource version, status), and
\* when nobody else writes, the stored object has R's labels and spec and
\* E's status.
C2_UpdateWhenPresent ==
    (UpsertDone /\ calls[1].err = Nil) =>
        /\ Ops(UpsertCalls) = << "Get", "Update" >>
        /\ CountOp(calls, "Update") = 1
        /\ CountOp(calls, "Create") = 0
        /\ Key(existing) = << Namespace, flags.args[1] >>
        /\ calls[2].arg.labels = Desired.labels
        /\ calls[2].arg.spec = Desired.spec
        /\ calls[2].arg.name = existing.name
        /\ calls[2].arg.namespace = existing.namespace
        /\ calls[2].arg.resourceVersion = existing.resourceVersion
        /\ calls[2].arg.conditions = existing.conditions
        /\ Undisturbed => existing \in storeAtStart
        /\ (Undisturbed /\ calls[2].err = Nil) =>
              \E o \in Stored(existing.name) :
                  /\ Stored(existing.name) = {o}
                  /\ o.labels = Desired.labels
                  /\ o.spec = Desired.spec
                  /\ o.conditions = existing.conditions

C2_Witness ==
    /\ UpsertDone
    /\ calls[1].err = Nil
    /\ Len(calls) >= 2
    /\ calls[2].op = "Update"
    /\ calls[2].err = Nil
    /\ existing.conditions # <<>>
    /\ existing.labels # Desired.labels
    /\ existing.spec # Desired.spec
    /\ Undisturbed

\* C3: the command run twice in succession on a store in which the first
\* Get found no counterpart of R: when the first upsertAlert returned no
\* error, R is still stored when the second invocation starts, nobody else
\* writes during the second and none of its calls fails in transport or on the
\* deadline, then the first upsertAlert issued a Get and a Create, and the
\* second issues a Get and an Update, no Create, and returns no error.
C3_CreateThenUpdate ==
    ( /\ run = 2
      /\ UpsertDone
      /\ polls = <<>>
      /\ prev[1].calls[1].err.class = "notfound"
      /\ prev[1].polls # <<>>
      /\ Lookup(storeAtStart, Namespace, flags.args[1]) # {}
      /\ Undisturbed
      /\ \A i \in DOMAIN calls : calls[i].err.class \notin {"api", "deadline"} )
    =>  /\ Ops(SelectSeq(prev[1].calls, IsUpsertCall)) = << "Get", "Create" >>
        /\ prev[1].calls[2].err = Nil
        /\ Ops(calls) = << "Get", "Update" >>
        /\ calls[1].err = Nil
        /\ calls[2].err = Nil
        /\ UpsertReturned = Nil
        /\ pc = "poll"

C3_Witness ==
    /\ run = 2
    /\ pc = "poll"
    /\ polls = <<>>
    /\ Lookup(prev[1].storeAtStart, Namespace, flags.args[1]) = {}
    /\ prev[1].calls[1].err.class = "notfound"
    /\ prev[1].polls # <<>>
    /\ Undisturbed
    /\ Ops(calls) = << "Get", "Update" >>
    /\ calls[2].err = Nil
    /\ envBudget < prev[1].envAtStart

\* the poll phase has ended
PollEnded == pc = "done" /\ polls # <<>>
\* index of the first condition of type Ready in a list, or 0
FirstReady(conds) ==
    IF \E k \in DOMAIN conds : conds[k].type = "Ready"
    THEN CHOOSE k \in DOMAIN conds :
            /\ conds[k].type = "Ready"
            /\ \A j \in 1..(k - 1) : conds[j].type # "Ready"
    ELSE 0
\* a poll fetched the object and read this status from its Ready condition
Saw(p, status) ==
    /\ p.err = Nil
    /\ FirstReady(p.conditions) # 0
    /\ p.conditions[FirstReady(p.conditions)].status = status
\* a poll fetched the object and found Ready absent or Unknown
Pending(p) == p.err = Nil /\ ~Saw(p, "True") /\ ~Saw(p, "False")
LastCall == calls[Len(calls)]

\* C4: the poll phase returns success exactly when a poll fetched the
\* object and read status True from its Ready condition; that poll is the
\* last one, and no poll that read False, Unknown or no Ready condition, or
\* that failed to fetch, ends the command with success.
C4_SuccessIffReadyTrue ==
    \A i \in DOMAIN polls :
        Saw(polls[i], "True") <=> (i = Len(polls) /\ pc = "done" /\ result = Nil)

C4_Witness ==
    /\ PollEnded
    /\ result = Nil
    /\ Len(polls) >= 2
    /\ FirstReady(polls[1].conditions) # 0
    /\ Saw(polls[1], "Unknown")
    /\ Len(polls[Len(polls)].conditions) = 2

\* C5: a poll that reads status False from the Ready condition is the last
\* call of the command: it returns at that poll, at that time, the error
\* fmt.Errorf makes of the condition's message.
C5_FailFastOnFalse ==
    \A i \in DOMAIN polls :
        Saw(polls[i], "False") =>
            /\ i = Len(polls)
            /\ pc = "done"
            /\ result = Err("terminal",
                   Sprintf(polls[i].conditions[FirstReady(polls[i].conditions)].message))
            /\ LastCall.op = "Get"
            /\ LastCall.phase = "poll"
            /\ CountOp(calls, "Get") = Len(polls) + 1
            /\ now = polls[i].at

C5_Witness ==
    /\ PollEnded
    /\ result = Err("terminal", << "e", "%!", "d", "(MISSING)" >>)
    /\ Saw(polls[Len(polls)], "False")
    /\ \E o \in Stored("a") :
          FirstReady(o.conditions) # 0 /\ o.conditions[FirstReady(o.conditions)].status = "True"

\* C6: when every poll either fetched the object and found Ready absent or
\* Unknown, or was cut short by the deadline, the poll phase ends no earlier
\* than the deadline and with a timeout error (the poll's own timeout or the
\* deadline error of the abandoned Get): not success and not the error of
\* Ready=False.
C6_TimeoutWhenPending ==
    (PollEnded /\ \A i \in DOMAIN polls :
                      Pending(polls[i]) \/ polls[i].err.class = "deadline")
    =>  /\ result.class \in {"waittimeout", "deadline"}
        /\ result # Nil
        /\ result.class # "terminal"
        /\ now >= Timeout
        /\ \A i \in 1..(Len(polls) - 1) : Pending(polls[i])

C6_Witness ==
    /\ PollEnded
    /\ Len(polls) >= 2
    /\ \A i \in 1..(Len(polls) - 1) : Pending(polls[i])
    /\ Saw(polls[1], "Unknown")
    /\ result.class \in {"waittimeout", "deadline"}

\* the flags fail one of the checks the claim lists: no name, no provider
\* ref, no event source, or an event source that is not <kind>/<name>
CountChar(str, c) == Cardinality({ i \in DOMAIN str : str[i] = c })
FlagsInvalid ==
    \/ Len(flags.args) = 0
    \/ flags.aProviderRef = ""
    \/ flags.aEventSources = <<>>
    \/ \E i \in DOMAIN flags.aEventSources :
          \/ CountChar(flags.aEventSources[i], "/") # 1
          \/ flags.aEventSources[i][1] = "/"

\* C7: a command line that fails one of the listed checks ends with a
\* validation error without leaving its start, and a command that ends with a
\* validation error has issued no client call and polled nothing; the store
\* is as it was unless somebody else wrote.
C7_ValidationBeforeNetwork ==
    /\ FlagsInvalid => pc \in {"start", "done"}
    /\ (FlagsInvalid /\ pc = "done") => result.class = "validation"
    /\ (pc = "done" /\ result.class = "validation") =>
          /\ calls = <<>>
          /\ polls = <<>>
          /\ Undisturbed => store = storeAtStart

C7_Witness ==
    /\ pc = "done"
    /\ result.class = "validation"
    /\ Len(flags.aEventSources) = 2
    /\ result.text[1] = "invalid event source"
    /\ Stored("a") # {}

\* C8: with --export and flags that pass validation the command never
\* leaves its start for a client call: it ends with no error, its output is
\* the manifest of the desired object, it has issued no Get, Create or Update
\* and polled nothing, and the store is as it was unless somebody else wrote.
C8_ExportNoNetwork ==
    (flags.export /\ ~FlagsInvalid /\ ~parseLabelList(flags.labels).err) =>
        /\ pc \in {"start", "done"}
        /\ calls = <<>>
        /\ polls = <<>>
        /\ pc = "done" =>
              /\ result = Nil
              /\ Len(log) = 2
              /\ log[2].kind = "Alert"
              /\ log[2].metadata.name = flags.args[1]
              /\ log[2].metadata.labels = Desired.labels
              /\ log[2].spec = Desired.spec
              /\ Undisturbed => store = storeAtStart

C8_Witness ==
    /\ flags.export
    /\ pc = "done"
    /\ result = Nil
    /\ log # <<>>
    /\ Stored("a") # {}

\* C9: when the Get of upsertAlert fails with an error other than
\* not-found, the command ends there with that error: the Get is its only
\* client call, so no retry, no Create and no Update.
C9_FetchErrorPropagates ==
    (calls # <<>> /\ calls[1].err.class \notin {"nil", "notfound"}) =>
        /\ pc = "done"
        /\ result = calls[1].err
        /\ Len(calls) = 1
        /\ polls = <<>>
        /\ Undisturbed => store = storeAtStart

C9_Witness ==
    /\ pc = "done"
    /\ Len(calls) = 1
    /\ calls[1].err.class = "api"
    /\ result.class = "api"
    /\ Stored("a") = {}

\* C10: a poll whose Get fails, for whatever reason, is the last call of the
\* command: it returns that error at that poll.
C10_PollFetchErrorStops ==
    \A i \in DOMAIN polls :
        polls[i].err # Nil =>
            /\ i = Len(polls)
            /\ pc = "done"
            /\ result = polls[i].err
            /\ LastCall.phase = "poll"
            /\ LastCall.err = polls[i].err
            /\ CountOp(calls, "Get") = Len(polls) + 1
            /\ now = polls[i].at

C10_Witness ==
    /\ PollEnded
    /\ Len(polls) >= 2
    /\ Pending(polls[1])
    /\ result.class = "notfound"
    /\ polls[Len(polls)].err.class = "notfound"

\* --------------------------------------------------------------- C11
\* the first condition of type Ready of a listed Receiver, if it has one
ReadyAt(r) == { k \in DOMAIN r.conditions : r.conditions[k].type = "Ready" }
FirstReadyOf(r) == r.conditions[CHOOSE k \in ReadyAt(r) : \A m \in ReadyAt(r) : k <= m]

\* C11: `get receivers` hands the table one row per fetched Receiver, in
\* the order they were fetched; the row of a Receiver with a Ready condition
\* carries that condition's status and message as they are, and the row of
\* a Receiver without one carries False and "waiting to be reconciled".
C11_RowPerReceiver ==
    getPc = "done" =>
        /\ Len(table.rows) = Len(list)
        /\ \A i \in DOMAIN list :
             /\ table.rows[i][1] = list[i].name
             /\ IF ReadyAt(list[i]) # {}
                THEN /\ table.rows[i][3] = FirstReadyOf(list[i]).status
                     /\ table.rows[i][4] = FirstReadyOf(list[i]).message
                ELSE /\ table.rows[i][3] = "False"
                     /\ table.rows[i][4] = "waiting to be reconciled"

\* a table of two rows was printed: the first Receiver fetched has no Ready
\* condition, the second has one, and the controller has since changed
\* what is stored
C11_Witness ==
    /\ getPc = "done"
    /\ table.printed
    /\ Len(list) = 2
    /\ ReadyAt(list[1]) = {}
    /\ ReadyAt(list[2]) # {}
    /\ FirstReadyOf(list[2]).status = "Unknown"
    /\ receivers # list

\* --------------------------------------------------------------- C12
\* the List call was made and failed
ListFailed == getCalls # <<>> /\ getCalls[1].err # Nil
\* the List call was made and brought back nothing
ListedNothing == getCalls # <<>> /\ getCalls[1].err = Nil /\ list = <<>>

\* C12 as stated: over an empty result `get receivers` returns no error and
\* prints no table, and it returns an error only when the List call failed.
C12_Original ==
    getPc = "done" =>
        /\ ListedNothing => getResult = Nil /\ ~table.printed /\ table.rows = <<>>
        /\ getResult # Nil => ListFailed

\* C12, amended: over an empty result `get receivers` returns no error and
\* prints no table; it returns an error only when the client could not be
\* built (no List call is made then) or when the List call failed, and the
\* error is that of the failed step.
C12_EmptyIsNoError ==
    getPc = "done" =>
        /\ ListedNothing => getResult = Nil /\ ~table.printed /\ table.rows = <<>>
        /\ getResult # Nil =>
             \/ getCalls = <<>> /\ ~getFlags.kubeconfigOK /\ getResult.class = "kubeclient"
             \/ ListFailed /\ getResult = getCalls[1].err
        /\ getResult = Nil => getCalls # <<>> /\ getCalls[1].err = Nil

\* the List call succeeded with nothing in the namespace while the cluster
\* holds a Receiver elsewhere; the command is done
C12_Witness ==
    /\ getPc = "done"
    /\ ListedNothing
    /\ receivers # <<>>
    /\ getLog # <<>>

\* --------------------------------------------------------------- C13
\* C13: the deadline of the context runs from line 118, before the upsert.
\* A client call issued once `timeout` has passed since then fails with the
\* deadline error, whether it belongs to the upsert or to the poll; it is
\* the run's last call and its error is what the command returns.  So no
\* call succeeds, and no poll is followed by another, past the deadline.
C13_OverallDeadline ==
    \A i \in DOMAIN calls :
        calls[i].late =>
            /\ calls[i].err.class = "deadline"
            /\ i = Len(calls)
            /\ pc = "done"
            /\ result = calls[i].err

\* the upsert took time, the poll started late, and the poll made when the
\* deadline had passed failed on it although the poller's own timer of
\* `timeout` had not run out
C13_Witness ==
    /\ pc = "done"
    /\ pollStart > 0
    /\ Len(polls) >= 2
    /\ polls[Len(polls)].at = Timeout
    /\ ~polls[Len(polls)].closed
    /\ result.class = "deadline"

\* --------------------------------------------------------------- C14
\* C14: when the upsert succeeded and the poll phase ended with an error
\* (deadline, Ready=False, or a failed Get), the run's only write is the
\* Create or Update of the upsert and every call after it is a Get; unless
\* another client wrote meanwhile, the stored Alert still has the labels and
\* the spec the upsert wrote, whatever status the controller has published.
C14_NoWriteAfterUpsert ==
    (PollEnded /\ result # Nil) =>
        /\ calls[2].op \in {"Create", "Update"}
        /\ calls[2].err = Nil
        /\ \A i \in DOMAIN calls : i # 2 => calls[i].op = "Get"
        /\ otherWrites = 0 =>
             /\ Stored(flags.args[1]) # {}
             /\ \A o \in Stored(flags.args[1]) :
                  o.labels = Desired.labels /\ o.spec = Desired.spec

\* the Update of an existing Alert succeeded, the controller then published
\* Ready=False, and the poll phase ended with that error: the Alert is
\* stored with the new spec
C14_Witness ==
    /\ PollEnded
    /\ result.class = "terminal"
    /\ calls[2].op = "Update"
    /\ otherWrites = 0
    /\ \E o \in Stored(flags.args[1]) :
         /\ o.spec = Desired.spec
         /\ o.spec # existing.spec
         /\ FirstReady(o.conditions) # 0

\* --------------------------------------------------------------- C15
\* how the wait ended, read from its last poll
EndedBy(p) ==
    { k \in {"success", "terminal", "fetch", "timeout"} :
        \/ k = "success" /\ Saw(p, "True") /\ result = Nil
        \/ k = "terminal" /\ Saw(p, "False") /\ result.class = "terminal"
        \/ k = "fetch" /\ p.err # Nil /\ result = p.err /\ p.err.class # "deadline"
        \/ k = "timeout" /\ \/ p.err # Nil /\ result = p.err /\ p.err.class = "deadline"
                            \/ Pending(p) /\ p.closed /\ result.class = "waittimeout" }

\* the polls are bounded: each is made an interval or more after the one
\* before, none later than `timeout` after the wait was entered
PollsBounded ==
    /\ \A i, j \in DOMAIN polls : i < j => polls[i].at < polls[j].at
    /\ \A i \in DOMAIN polls : pollStart <= polls[i].at /\ polls[i].at <= pollStart + Timeout
    /\ Len(polls) <= Timeout + 1

\* C15: the wait makes a bounded number of polls (the immediate one and at
\* most one per interval within the timeout), a wait that has been entered
\* ends whatever the controller and other clients do, and it ends in
\* exactly one way: success, terminal failure, fetch error, or timeout.
C15_PollTerminates ==
    /\ [](PollsBounded /\ (PollEnded => Cardinality(EndedBy(polls[Len(polls)])) = 1))
    /\ (pc = "poll") ~> (pc = "done")

\* a wait that made every poll the timeout has room for, and ended
C15_Witness ==
    /\ PollEnded
    /\ Len(polls) = Timeout + 1
    /\ EndedBy(polls[Len(polls)]) = {"timeout"}

\* --------------------------------------------------------------- C16
\* the conditions of type Ready in a list
ReadyEntries(conds) == { k \in DOMAIN conds : conds[k].type = "Ready" }

\* C16: a poll that fetched an object with two or more conditions of type
\* Ready acts on the first of them alone: first True ends the command with
\* success, first False ends it with that condition's message as the error,
\* and a first entry that is neither keeps the wait going, whatever the
\* later Ready entries say.
C16_FirstReadyDecides ==
    \A i \in DOMAIN polls :
        (polls[i].err = Nil /\ Cardinality(ReadyEntries(polls[i].conditions)) >= 2) =>
            LET first == polls[i].conditions[FirstReady(polls[i].conditions)]
            IN  /\ first.status = "True" =>
                     i = Len(polls) /\ pc = "done" /\ result = Nil
                /\ first.status = "False" =>
                     /\ i = Len(polls) /\ pc = "done"
                     /\ result = Err("terminal", Sprintf(first.message))
                /\ first.status \notin {"True", "False"} =>
                     (i = Len(polls) => pc = "poll" \/ result.class = "waittimeout")

\* a poll read Unknown before True and the wait went on; a later poll read
\* False before True and ended the command with the message of the False
C16_Witness ==
    /\ PollEnded
    /\ result.class = "terminal"
    /\ \E i \in DOMAIN polls :
         /\ i < Len(polls)
         /\ Cardinality(ReadyEntries(polls[i].conditions)) = 2
         /\ polls[i].seen = "Unknown"
    /\ Cardinality(ReadyEntries(polls[Len(polls)].conditions)) = 2
    /\ polls[Len(polls)].conditions[2].status = "True"

\* --------------------------------------------------------------- C17
\* the command updated an Alert that existed with another spec, and
\* reported it ready
UpdatedAndReady ==
    /\ PollEnded
    /\ result = Nil
    /\ calls[2].op = "Update"
    /\ calls[2].err = Nil
    /\ existing.spec # Desired.spec

\* C17: when the command has updated the spec of an existing Alert and
\* reports success, the Ready=True it read was published after its Update:
\* the controller (the only writer of Ready=True) has written to the store
\* since the Update succeeded.
C17_NoStaleReady ==
    UpdatedAndReady => envBudget < envAtWrite

\* --------------------------------------------------------------- C18
\* C18: upsertAlert issues one Get first and then at most one write, a
\* Create or an Update; these are the first calls of the run and no other
\* call of the upsert follows.  When the write fails, for instance with
\* AlreadyExists after another client created the Alert, or with a conflict
\* after the controller wrote to it, the command is over with that error:
\* no second write, no retry of the Get, and no poll.
C18_OneGetOneWrite ==
    /\ \A i \in DOMAIN calls : calls[i].phase = "upsert" <=> i <= 2
    /\ calls # <<>> => calls[1].op = "Get"
    /\ Len(calls) >= 2 =>
         /\ calls[2].op \in {"Create", "Update"}
         /\ calls[1].err = Nil => calls[2].op = "Update"
         /\ calls[1].err # Nil => calls[2].op = "Create"
         /\ calls[2].err # Nil =>
              /\ pc = "done"
              /\ result = calls[2].err
              /\ Len(calls) = 2
              /\ polls = <<>>
    /\ pc \in {"poll", "done"} /\ polls # <<>> => Len(calls) >= 2 /\ calls[2].err = Nil

\* the Get found nothing, another client created the Alert, and the Create
\* failed with AlreadyExists: the command returned that error
C18_Witness ==
    /\ pc = "done"
    /\ Len(calls) = 2
    /\ calls[1].err.class = "notfound"
    /\ calls[2].op = "Create"
    /\ result.class = "alreadyexists"
    /\ otherWrites = 1
    /\ polls = <<>>

====
